---- MODULE Spec2Model ----
(***************************************************************************)
(* FitLens backend: the feature-row builder, the batch scorer with its     *)
(* lazily loaded model cache, the ranker, the /analyze-and-recommend       *)
(* handler and the /track handler, modelled from src/src/app.              *)
(*                                                                         *)
(* Python values are encoded as follows.  An Optional value is a sequence  *)
(* of length at most one: None is <<>> and a present value v is <<v>>.     *)
(* Size labels, styles and trait values are strings.  A product tag is a   *)
(* sequence of one-character strings, so that str.lower() and ";".join()   *)
(* are computed rather than assumed.                                       *)
(***************************************************************************)
EXTENDS Integers, Sequences, FiniteSets, TLC

VARIABLES
    PIPE,        \* ml_scorer._PIPE: None, or the loaded pipeline object
    loadCount,   \* number of joblib.load(MODEL_PATH) calls made so far
    modelFile,   \* MODEL_PATH on disk: 0 = missing, v > 0 = artifact content v
    products,    \* rows of the "products" table, in the order a select returns them
    prices,      \* rows of the "prices" table, in the order a select returns them
    reqs,        \* per request slot: the position of its handler
    runs,        \* per request slot: outcome of the latest request completed in it
    call,        \* the last call observed in full: arguments, intermediate values, result
    clicks,      \* rows of the "clicks" table, in insertion order
    likes,       \* rows of the "likes" table, in insertion order
    now          \* the server clock, time.time() in whole seconds

vars == <<PIPE, loadCount, modelFile, products, prices, reqs, runs, call,
          clicks, likes, now>>

-----------------------------------------------------------------------------
(* Optional values, truthiness *)

None == <<>>
Some(x) == <<x>>
IsNone(o) == o = <<>>
Val(o) == o[1]

\* Python truth value of an Optional[str]: None and "" are falsy.
TruthyStr(o) == ~IsNone(o) /\ Val(o) # ""

\* Python "x in xs" for a list xs.
InList(x, xs) == \E i \in 1..Len(xs) : xs[i] = x

\* prod.get(key) or []  for an optional list.
OrEmpty(o) == IF IsNone(o) THEN <<>> ELSE Val(o)

-----------------------------------------------------------------------------
(* Text: str(), str.lower(), ";".join() *)

NoneText == <<"N", "o", "n", "e">>

\* str(t) of a tag that is None or already a string.
PyStr(t) == IF IsNone(t) THEN NoneText ELSE Val(t)

LowerChar(c) ==
    CASE c = "N" -> "n"
      [] c = "A" -> "a"
      [] c = "R" -> "r"
      [] c = "E" -> "e"
      [] c = "D" -> "d"
      [] OTHER -> c

Lower(s) == [i \in 1..Len(s) |-> LowerChar(s[i])]

\* sep.join(parts)
RECURSIVE Join(_, _)
Join(sep, parts) ==
    IF parts = <<>> THEN <<>>
    ELSE IF Len(parts) = 1 THEN parts[1]
    ELSE parts[1] \o sep \o Join(sep, Tail(parts))

\* [x for x in xs if x]  for a list of strings
RECURSIVE DropEmpty(_)
DropEmpty(xs) ==
    IF xs = <<>> THEN <<>>
    ELSE IF xs[1] = <<>> THEN DropEmpty(Tail(xs))
    ELSE <<xs[1]>> \o DropEmpty(Tail(xs))

-----------------------------------------------------------------------------
(* Feature Row Builder: ml/utils/ml_scorer_utils.py row_from, and its copy *)
(* ml/ml_scorer.py _row_from                                               *)

\* int(prod.get("price") or 0)
PriceFeature(prod) == IF IsNone(prod.price) THEN 0 ELSE Val(prod.price)

\* variant: the membership test is lost, any non-empty size list counts
HasSizeAnyList(prod, size) ==
    IF TruthyStr(size) /\ OrEmpty(prod.sizes) # <<>> THEN 1 ELSE 0

\* int(bool(size and size in sizes)), sizes = prod.get("sizes") or []
HasSize(prod, size) ==
    IF TruthyStr(size) /\ InList(Val(size), OrEmpty(prod.sizes)) THEN 1 ELSE 0

\* tags = [str(t).lower() for t in (prod.get("tags") or [])]
LoweredTags(prod) ==
    LET ts == OrEmpty(prod.tags)
    IN  [i \in 1..Len(ts) |-> Lower(PyStr(ts[i]))]

\* semis = ";".join(t for t in tags if t)
Semis(prod) == Join(<<";">>, DropEmpty(LoweredTags(prod)))

\* variant: all seven trait fields are copied into the row
RowFromAllTraits(prod, traits, style, size) ==
    [ price            |-> PriceFeature(prod),
      has_size         |-> HasSize(prod, size),
      style            |-> style,
      skin_temperature |-> traits.skin_temperature,
      skin_depth       |-> traits.skin_depth,
      hair_type        |-> traits.hair_type,
      hair_color       |-> traits.hair_color,
      frame            |-> traits.frame,
      height_bucket    |-> traits.height_bucket,
      shoulders        |-> traits.shoulders,
      color_tags       |-> Semis(prod),
      fit_tags         |-> Semis(prod),
      avoid_tags       |-> <<>> ]

row_from(prod, traits, style, size) ==
    [ price            |-> PriceFeature(prod),
      has_size         |-> HasSize(prod, size),
      style            |-> style,
      skin_temperature |-> traits.skin_temperature,
      skin_depth       |-> traits.skin_depth,
      frame            |-> traits.frame,
      height_bucket    |-> traits.height_bucket,
      shoulders        |-> traits.shoulders,
      color_tags       |-> Semis(prod),
      fit_tags         |-> Semis(prod),
      avoid_tags       |-> <<>> ]

-----------------------------------------------------------------------------
(* Explanation list: routes/analyze.py lines 117-122 (the same statements  *)
(* are in ml_scorer.py ml_score_product and main.py)                       *)

InStockReason == <<"in stock in your size">>
PriceReason(n) == <<"price Rs", n>>
FallbackReason == <<"good predicted match">>

\* variant: the size reason is given whenever a size was requested (as the
\* rule-based scoring.py score_product does)
WhyForAnySize(p, size) ==
    LET w1 == IF TruthyStr(size) THEN <<InStockReason>> ELSE <<>>
        w2 == IF ~IsNone(p.price) THEN <<PriceReason(Val(p.price))>> ELSE <<>>
        why == w1 \o w2
    IN  IF why = <<>> THEN <<FallbackReason>> ELSE why

WhyFor(p, size) ==
    LET w1 == IF TruthyStr(size) /\ InList(Val(size), OrEmpty(p.sizes))
              THEN <<InStockReason>> ELSE <<>>
        w2 == IF ~IsNone(p.price) THEN <<PriceReason(Val(p.price))>> ELSE <<>>
        why == w1 \o w2
    IN  IF why = <<>> THEN <<FallbackReason>> ELSE why

-----------------------------------------------------------------------------
(* Bounds and sample inputs *)

MaxVersion == 2      \* distinct artifact contents the training step may write
ProbScale == 4       \* a probability p is the integer p * ProbScale
MaxRows == 2         \* longest row batch passed to a direct scorer call
MaxTags == 2         \* longest tag list of a sample product

Styles == {"casual", "traditional"}
SizeArgs == {None, Some(""), Some("M"), Some("S")}

SizeLists == {None, Some(<<>>), Some(<<"M", "L">>), Some(<<"L">>)}
PriceValues == {None, Some(0), Some(999)}

TagValues == {None, Some(<<>>), Some(<<"N", "a">>), Some(<<"r", "e", "d">>)}
TagLists ==
    {None} \cup {Some(ts) : ts \in UNION {[1..n -> TagValues] : n \in 0..MaxTags}}

\* quick_traits_from_image fills every trait but skin_depth with a constant;
\* the Traits type admits the other values too.
TraitSamples ==
    {[skin_temperature |-> "neutral", skin_depth |-> d, hair_type |-> "unknown",
      hair_color |-> "unknown", frame |-> "regular", height_bucket |-> "avg",
      shoulders |-> "average"] : d \in {"light", "medium", "deep"}}
    \cup
    {[skin_temperature |-> "warm", skin_depth |-> "deep", hair_type |-> "curly",
      hair_color |-> "dark", frame |-> "slim", height_bucket |-> "tall",
      shoulders |-> "broad"]}

ProdSamples ==
    [id : {"p1"}, price : PriceValues, sizes : SizeLists, tags : TagLists]

-----------------------------------------------------------------------------
(* Batch Scorer: ml/ml_scorer.py *)

\* The trained pipeline (train_model.py: ColumnTransformer + LogisticRegression)
\* scores every row of a batch on its own features; which function of the
\* features it computes depends on the artifact content ver.
ModelScore(ver, row) ==
    (ver * (row.price \div 100) + (ver + 1) * row.has_size + Len(row.color_tags)
         + (IF row.skin_depth = "deep" THEN 1 ELSE 0)) % (ProbScale + 1)

\* pipe.predict_proba(df): one line per row, columns P(label=0), P(label=1)
PredictProba(pipe, df) ==
    [i \in 1..Len(df) |-> <<ProbScale - ModelScore(pipe.ver, df[i]),
                            ModelScore(pipe.ver, df[i])>>]

\* variant: the artifact is read again on every call that finds it on disk
LoadPipeReloading(pipe, file, loads) ==
    IF file = 0
    THEN IF IsNone(pipe)
         THEN [raised |-> TRUE, PIPE |-> pipe, loads |-> loads]
         ELSE [raised |-> FALSE, PIPE |-> pipe, loads |-> loads]
    ELSE [raised |-> FALSE,
          PIPE |-> Some([obj |-> loads + 1, ver |-> file]),
          loads |-> loads + 1]

\* variant: a missing artifact is masked, the request is scored by a stand-in
\* pipeline
LoadPipeLenient(pipe, file, loads) ==
    IF IsNone(pipe)
    THEN IF file = 0
         THEN [raised |-> FALSE, PIPE |-> Some([obj |-> loads + 1, ver |-> 1]),
               loads |-> loads]
         ELSE [raised |-> FALSE,
               PIPE |-> Some([obj |-> loads + 1, ver |-> file]),
               loads |-> loads + 1]
    ELSE [raised |-> FALSE, PIPE |-> pipe, loads |-> loads]

\* _load_pipe(): returns the cache, filling it from MODEL_PATH when it is None;
\* raises FileNotFoundError when the file is missing.
LoadPipe(pipe, file, loads) ==
    IF IsNone(pipe)
    THEN IF file = 0
         THEN [raised |-> TRUE, PIPE |-> pipe, loads |-> loads]
         ELSE [raised |-> FALSE,
               PIPE |-> Some([obj |-> loads + 1, ver |-> file]),
               loads |-> loads + 1]
    ELSE [raised |-> FALSE, PIPE |-> pipe, loads |-> loads]

\* variant: the scores come back in reverse row order
PredictProbasReversed(rows, pipe, file, loads) ==
    LET ld == LoadPipe(pipe, file, loads)
    IN  IF ld.raised
        THEN [raised |-> TRUE, ret |-> <<>>, invoked |-> FALSE,
              PIPE |-> ld.PIPE, loads |-> ld.loads]
        ELSE IF rows = <<>>
        THEN [raised |-> FALSE, ret |-> <<>>, invoked |-> FALSE,
              PIPE |-> ld.PIPE, loads |-> ld.loads]
        ELSE LET m == PredictProba(Val(ld.PIPE), rows)
             IN  [raised |-> FALSE,
                  ret |-> [i \in 1..Len(m) |-> m[Len(m) + 1 - i][2]],
                  invoked |-> TRUE, PIPE |-> ld.PIPE, loads |-> ld.loads]

\* ml_predict_probas(rows): the returned list, the cache and the load counter
\* after the call, and whether predict_proba was invoked.
ml_predict_probas(rows, pipe, file, loads) ==
    LET ld == LoadPipe(pipe, file, loads)
    IN  IF ld.raised
        THEN [raised |-> TRUE, ret |-> <<>>, invoked |-> FALSE,
              PIPE |-> ld.PIPE, loads |-> ld.loads]
        ELSE IF rows = <<>>
        THEN [raised |-> FALSE, ret |-> <<>>, invoked |-> FALSE,
              PIPE |-> ld.PIPE, loads |-> ld.loads]
        ELSE LET m == PredictProba(Val(ld.PIPE), rows)
             IN  [raised |-> FALSE, ret |-> [i \in 1..Len(m) |-> m[i][2]],
                  invoked |-> TRUE, PIPE |-> ld.PIPE, loads |-> ld.loads]

\* ml_score_product(prod, traits, style, size): (proba, why)
ml_score_product(prod, traits, style, size, pipe, file, loads) ==
    LET ld == LoadPipe(pipe, file, loads)
    IN  IF ld.raised
        THEN [raised |-> TRUE, proba |-> 0, why |-> <<>>,
              PIPE |-> ld.PIPE, loads |-> ld.loads]
        ELSE LET m == PredictProba(Val(ld.PIPE), <<row_from(prod, traits, style, size)>>)
             IN  [raised |-> FALSE, proba |-> m[1][2], why |-> WhyFor(prod, size),
                  PIPE |-> ld.PIPE, loads |-> ld.loads]

-----------------------------------------------------------------------------
(* Trait Extractor: utils/analyze_utils.py quick_traits_from_image.  An    *)
(* opened image is represented by the mean brightness of its centre crop.  *)

LightAbove == 180
MediumAbove == 110

quick_traits_from_image(mean) ==
    [skin_temperature |-> "neutral",
     skin_depth       |-> IF mean > LightAbove THEN "light"
                          ELSE IF mean > MediumAbove THEN "medium"
                          ELSE "deep",
     hair_type        |-> "unknown",
     hair_color       |-> "unknown",
     frame            |-> "regular",
     height_bucket    |-> "avg",
     shoulders        |-> "average"]

-----------------------------------------------------------------------------
(* Catalog Join: routes/analyze.py steps 3-5 *)

\* ids = [p["id"] for p in products] or ["-"]
IdsOf(prods) ==
    IF prods = <<>> THEN <<"-">> ELSE [i \in 1..Len(prods) |-> prods[i].id]

\* sb.table("prices").select("*").in_("product_id", ids): the rows of the
\* table whose product_id is one of ids, in table order
RECURSIVE SelectIn(_, _)
SelectIn(table, ids) ==
    IF table = <<>> THEN <<>>
    ELSE IF InList(table[1].product_id, ids)
         THEN <<table[1]>> \o SelectIn(Tail(table), ids)
         ELSE SelectIn(Tail(table), ids)

\* price_map.get(id) for price_map = {row["product_id"]: row for row in data}:
\* the last row of data with that product_id, None when there is none
RECURSIVE PriceMapGet(_, _)
PriceMapGet(data, id) ==
    IF data = <<>> THEN None
    ELSE IF data[Len(data)].product_id = id THEN Some(data[Len(data)])
    ELSE PriceMapGet(SubSeq(data, 1, Len(data) - 1), id)

\* pr.get("in_stock", True): the default applies when the key is absent
InStockOf(pr) == IF pr.in_stock = "absent" THEN "true" ELSE pr.in_stock

\* {**p, "price": ..., "mrp": ..., "sizes": pr.get("sizes") or [], "in_stock": ...}
Enrich(p, pr) ==
    [id       |-> p.id,
     tags     |-> p.tags,
     price    |-> pr.price,
     mrp      |-> pr.mrp,
     sizes    |-> Some(OrEmpty(pr.sizes)),
     in_stock |-> InStockOf(pr)]

\* the loop over products: a product without a price row is skipped
RECURSIVE Enriched(_, _)
Enriched(prods, data) ==
    IF prods = <<>> THEN <<>>
    ELSE LET pr == PriceMapGet(data, prods[1].id)
         IN  IF IsNone(pr)
             THEN Enriched(Tail(prods), data)
             ELSE <<Enrich(prods[1], Val(pr))>> \o Enriched(Tail(prods), data)

\* variant: the filter looks at in_stock only
KeepsInStock(p) == p.in_stock = "true"

\* variant: the price is tested for truth, a price of 0 is dropped
KeepsTruthyPrice(p) == p.in_stock = "true" /\ ~IsNone(p.price) /\ Val(p.price) # 0

\* p.get("in_stock", True) and (p.get("price") is not None)
Keeps(p) == p.in_stock = "true" /\ ~IsNone(p.price)

RECURSIVE Filtered(_)
Filtered(enriched) ==
    IF enriched = <<>> THEN <<>>
    ELSE IF Keeps(enriched[1])
         THEN <<enriched[1]>> \o Filtered(Tail(enriched))
         ELSE Filtered(Tail(enriched))

\* variant: every joined product goes on to scoring
CandidatesUnfiltered(prods, data) == Enriched(prods, data)

\* the candidate list of one request, from the two query results
Candidates(prods, data) == Filtered(Enriched(prods, data))

-----------------------------------------------------------------------------
(* Ranker: routes/analyze.py steps 6-7 *)

TopK == 12

\* for p, s in zip(filtered, probas): scored.append((float(s), p, why))
Zip(filtered, probas, size) ==
    LET n == IF Len(filtered) < Len(probas) THEN Len(filtered) ELSE Len(probas)
    IN  [i \in 1..n |-> [score |-> probas[i], p |-> filtered[i],
                         why |-> WhyFor(filtered[i], size)]]

\* list.sort(key=lambda t: t[0], reverse=True) is stable: an entry goes behind
\* every entry whose score is greater than or equal to its own
\* variant: an entry goes in front of the entries with its own score
RECURSIVE InsertDescUnstable(_, _)
InsertDescUnstable(x, sorted) ==
    IF sorted = <<>> THEN <<x>>
    ELSE IF sorted[1].score > x.score
         THEN <<sorted[1]>> \o InsertDescUnstable(x, Tail(sorted))
         ELSE <<x>> \o sorted

RECURSIVE InsertDesc(_, _)
InsertDesc(x, sorted) ==
    IF sorted = <<>> THEN <<x>>
    ELSE IF sorted[1].score >= x.score
         THEN <<sorted[1]>> \o InsertDesc(x, Tail(sorted))
         ELSE <<x>> \o sorted

RECURSIVE SortDesc(_)
SortDesc(scored) ==
    IF scored = <<>> THEN <<>>
    ELSE InsertDesc(scored[Len(scored)],
                    SortDesc(SubSeq(scored, 1, Len(scored) - 1)))

\* scored[:12]
Top(scored) ==
    SubSeq(scored, 1, IF Len(scored) < TopK THEN Len(scored) ELSE TopK)

\* ProductOut(...): tags is declared List[str], so a None tag list or a None
\* tag fails validation
ValidOut(p) ==
    /\ ~IsNone(p.tags)
    /\ \A i \in 1..Len(Val(p.tags)) : ~IsNone(Val(p.tags)[i])

ProductOut(t) ==
    [id    |-> t.p.id,
     price |-> IF IsNone(t.p.price) THEN 0 ELSE Val(t.p.price),
     mrp   |-> t.p.mrp,
     sizes |-> OrEmpty(t.p.sizes),
     tags  |-> t.p.tags,
     why   |-> t.why]

\* variant: the list is cut to twelve entries before it is sorted
RankedCutFirst(filtered, probas, size) == SortDesc(Top(Zip(filtered, probas, size)))

\* sort, truncate and build the response items
Ranked(filtered, probas, size) == Top(SortDesc(Zip(filtered, probas, size)))

Items(top) == [i \in 1..Len(top) |-> ProductOut(top[i])]

-----------------------------------------------------------------------------
(* /analyze-and-recommend: routes/analyze.py analyze_and_recommend (main.py *)
(* holds the same handler)                                                  *)

\* variant: GIF images are let through
AllowedTypesWithGif == {"image/jpeg", "image/png", "image/webp", "image/gif"}

AllowedTypes == {"image/jpeg", "image/png", "image/webp"}

\* what a request leaves behind: the response (status, detail, items) and the
\* values the handler computed on the way
NoResult(pipe, loads) ==
    [status |-> 0, detail |-> "", items |-> <<>>, prodQ |-> 0, priceQ |-> 0,
     prods |-> <<>>, data |-> <<>>, filtered |-> <<>>, rows |-> <<>>,
     scorerCalled |-> FALSE, raisedLoad |-> FALSE, invoked |-> FALSE,
     probas |-> <<>>, top |-> <<>>,
     PIPE |-> pipe, loads |-> loads]

\* the handler from "data = await image.read()" on; image is None when the
\* bytes cannot be opened, prodErr / priceErr tell whether the storage backend
\* reports an error for the query, prods / table are the two tables
analyze_and_recommend(image, style, size, budget, prodErr, priceErr, prods, table, pipe, file, loads) ==
    LET base == NoResult(pipe, loads)
    IN
    IF IsNone(image)
    THEN [base EXCEPT !.status = 400, !.detail = "Invalid image file"]
    ELSE
    LET traits == quick_traits_from_image(Val(image))
    IN
    IF prodErr
    THEN [base EXCEPT !.status = 500, !.detail = "products error", !.prodQ = 1]
    ELSE
    LET data == SelectIn(table, IdsOf(prods))
        q == [base EXCEPT !.prodQ = 1, !.priceQ = 1, !.prods = prods]
    IN
    IF priceErr
    THEN [q EXCEPT !.status = 500, !.detail = "prices error"]
    ELSE
    LET filtered == Candidates(prods, data)
        j == [q EXCEPT !.data = data, !.filtered = filtered]
    IN
    IF filtered = <<>>
    THEN [j EXCEPT !.status = 200]
    ELSE
    LET rows == [i \in 1..Len(filtered) |-> row_from(filtered[i], traits, style, size)]
        sc == ml_predict_probas(rows, pipe, file, loads)
        c == [j EXCEPT !.rows = rows, !.scorerCalled = TRUE, !.invoked = sc.invoked,
                       !.PIPE = sc.PIPE, !.loads = sc.loads]
    IN
    IF sc.raised
    THEN [c EXCEPT !.status = 500, !.detail = "Model not found", !.raisedLoad = TRUE]
    ELSE
    LET top == Ranked(filtered, sc.ret, size)
        r == [c EXCEPT !.probas = sc.ret, !.top = top]
    IN
    IF \E i \in 1..Len(top) : ~ValidOut(top[i].p)
    THEN [r EXCEPT !.status = 500, !.detail = "ProductOut validation error"]
    ELSE [r EXCEPT !.status = 200, !.items = Items(top)]

-----------------------------------------------------------------------------
(* The service: concurrent requests, the catalog and the model artifact *)

NumReqs == 2         \* requests that can be in flight at once

Reqs == 1..NumReqs

\* content types of the sample requests
ContentTypes == {"image/jpeg", "image/webp", "image/gif"}

\* what the storage backend reports for the two queries of a request
QueryOutcomes == {"ok", "products error", "prices error"}

\* form fields and image of the sample requests
ReqSamples ==
    { [image |-> None,      style |-> "casual",      size |-> Some("M"), budget |-> None],
      [image |-> Some(200), style |-> "casual",      size |-> Some("M"), budget |-> None],
      [image |-> Some(200), style |-> "casual",      size |-> Some("M"), budget |-> Some(150)],
      [image |-> Some(150), style |-> "traditional", size |-> None,      budget |-> Some(150)],
      [image |-> Some(100), style |-> "traditional", size |-> Some(""),  budget |-> None],
      [image |-> Some(100), style |-> "casual",      size |-> Some("S"), budget |-> None] }

Product(id, tags) == [id |-> id, tags |-> tags]
PriceRow(id, price, sizes, stock) ==
    [product_id |-> id, price |-> price, mrp |-> None, sizes |-> sizes, in_stock |-> stock]

P1 == Product("p1", Some(<<Some(<<"N", "a">>)>>))
P2 == Product("p2", Some(<<>>))
P3 == Product("p3", None)

\* sample contents of the two tables
Catalogs ==
    { [products |-> <<>>,
       prices   |-> <<PriceRow("p1", Some(100), Some(<<"M">>), "true")>>],
      [products |-> <<P1, P2>>,
       prices   |-> <<PriceRow("p1", Some(100), Some(<<"M">>), "true"),
                      PriceRow("p2", Some(300), None, "absent")>>],
      [products |-> <<P2, P1>>,
       prices   |-> <<PriceRow("p1", Some(100), Some(<<"M">>), "true"),
                      PriceRow("p2", Some(300), None, "absent")>>],
      [products |-> <<P1, P2>>,
       prices   |-> <<PriceRow("p1", Some(100), Some(<<"M">>), "false"),
                      PriceRow("p2", None, Some(<<"M">>), "true")>>],
      [products |-> <<P1, P2>>,
       prices   |-> <<PriceRow("p2", Some(100), Some(<<"S", "M">>), "true")>>],
      [products |-> <<P1, P3>>,
       prices   |-> <<PriceRow("p3", Some(300), Some(<<"M">>), "true"),
                      PriceRow("p1", Some(100), Some(<<"M">>), "true")>>] }

NoCall == [fn |-> "none"]

Init ==
    /\ PIPE = None
    /\ loadCount = 0
    /\ modelFile \in 0..MaxVersion
    /\ \E k \in Catalogs : products = k.products /\ prices = k.prices
    /\ reqs = [r \in Reqs |-> [pc |-> "idle"]]
    /\ runs = [r \in Reqs |-> None]
    /\ call = NoCall
    /\ clicks = <<>>
    /\ likes = <<>>
    /\ now = 0

Idle == [pc |-> "idle"]
Reading == [pc |-> "reading"]

\* the requests in flight, other than r, that are suspended at their await
Waiting(r) == {o \in Reqs \ {r} : reqs[o].pc = "reading"}

\* variant: the handlers run on threads, any of them may run at any time
CanRunThreaded(r) == TRUE

\* the handlers are coroutines ("async def") of one event loop: a handler that
\* is between two suspension points keeps the loop, no other handler is started
\* or resumed meanwhile
CanRun(r) == \A o \in Reqs \ {r} : reqs[o].pc \in {"idle", "reading"}

\* what is kept of a completed request of slot r: whether the batch scorer was
\* called, the pipeline object it got from _load_pipe (0: none, it raised or
\* was not called), and whether that call read the artifact while another
\* request was suspended
Outcome(r, res, loadsBefore) ==
    [scored |-> res.scorerCalled,
     obj    |-> IF res.scorerCalled /\ ~res.raisedLoad THEN Val(res.PIPE).obj ELSE 0,
     raced  |-> res.loads # loadsBefore /\ Waiting(r) # {}]

\* a request arrives: the content type is checked, then the handler suspends
\* at "await image.read()"
Arrive(r) ==
    /\ reqs[r].pc = "idle"
    /\ CanRun(r)
    /\ \E ctype \in ContentTypes :
         IF ctype \in AllowedTypes
         THEN /\ reqs' = [reqs EXCEPT ![r] = Reading]
              /\ UNCHANGED runs
         ELSE /\ runs' = [runs EXCEPT ![r] =
                            Some(Outcome(r, [NoResult(PIPE, loadCount) EXCEPT
                                               !.status = 400], loadCount))]
              /\ UNCHANGED reqs
    /\ UNCHANGED <<PIPE, loadCount, modelFile, products, prices, call, clicks, likes, now>>

\* the handler resumes.  It has no other suspension point and runs to its
\* end, through the two queries, the join, the scorer call and the ranking.
\* Inside _load_pipe, the test "_PIPE is None ... MODEL_PATH.exists()" and the
\* statement "_PIPE = joblib.load(MODEL_PATH)" are two steps: when the test
\* finds the cache empty and the file present, the handler stands before the
\* load, with the values it has computed so far.
Resume(r) ==
    /\ reqs[r].pc = "reading"
    /\ CanRun(r)
    /\ \E q \in ReqSamples, db \in QueryOutcomes :
         \E res \in {analyze_and_recommend(q.image, q.style, q.size, q.budget,
                                          db = "products error", db = "prices error",
                                          products, prices,
                                          PIPE, modelFile, loadCount)} :
             IF res.scorerCalled /\ res.loads # loadCount
             THEN /\ reqs' = [reqs EXCEPT ![r] =
                                [pc |-> "loading", q |-> q,
                                 prods |-> products, table |-> prices]]
                  /\ UNCHANGED <<PIPE, loadCount, runs>>
             ELSE /\ PIPE' = res.PIPE
                  /\ loadCount' = res.loads
                  /\ runs' = [runs EXCEPT ![r] = Some(Outcome(r, res, loadCount))]
                  /\ reqs' = [reqs EXCEPT ![r] = Idle]
    /\ UNCHANGED <<modelFile, products, prices, call, clicks, likes, now>>

\* "_PIPE = joblib.load(MODEL_PATH)" of a handler that found the cache empty,
\* then the rest of the handler; the load raises when the file is gone
Load(r) ==
    /\ reqs[r].pc = "loading"
    /\ CanRun(r)
    /\ \E res \in {analyze_and_recommend(reqs[r].q.image, reqs[r].q.style,
                                        reqs[r].q.size, reqs[r].q.budget,
                                        FALSE, FALSE, reqs[r].prods, reqs[r].table,
                                        None, modelFile, loadCount)} :
         /\ PIPE' = res.PIPE
         /\ loadCount' = res.loads
         /\ runs' = [runs EXCEPT ![r] = Some(Outcome(r, res, loadCount))]
    /\ reqs' = [reqs EXCEPT ![r] = Idle]
    /\ UNCHANGED <<modelFile, products, prices, call, clicks, likes, now>>

\* the catalog is edited by its owner
SetCatalog ==
    /\ \E k \in Catalogs :
         /\ <<k.products, k.prices>> # <<products, prices>>
         /\ products' = k.products
         /\ prices' = k.prices
    /\ UNCHANGED <<PIPE, loadCount, modelFile, reqs, runs, call, clicks, likes, now>>

\* train_model.main() writes the artifact: joblib.dump(pipe, MODEL_PATH)
TrainModel ==
    /\ \E v \in 1..MaxVersion : v # modelFile /\ modelFile' = v
    /\ UNCHANGED <<PIPE, loadCount, products, prices, reqs, runs, call, clicks, likes, now>>

\* the artifact is removed from disk
RemoveModel ==
    /\ modelFile # 0
    /\ modelFile' = 0
    /\ UNCHANGED <<PIPE, loadCount, products, prices, reqs, runs, call, clicks, likes, now>>

Next ==
    \/ \E r \in Reqs : Arrive(r)
    \/ \E r \in Reqs : Resume(r)
    \/ \E r \in Reqs : Load(r)
    \/ SetCatalog
    \/ TrainModel
    \/ RemoveModel

Spec == Init /\ [][Next]_vars

-----------------------------------------------------------------------------
(* One request after the other, each observed in full *)

\* variant: price rows above the budget are left out of the join
HandleWithBudgetGate(ctype, q, db) ==
    /\ \E res \in {IF ctype \in AllowedTypes
                   THEN analyze_and_recommend(
                            q.image, q.style, q.size, q.budget,
                            db = "products error", db = "prices error", products,
                            SelectSeq(prices,
                                      LAMBDA r : \/ q.budget = None
                                                 \/ r.price = None
                                                 \/ Val(r.price) <= Val(q.budget)),
                            PIPE, modelFile, loadCount)
                   ELSE [NoResult(PIPE, loadCount) EXCEPT
                           !.status = 400, !.detail = "Unsupported image type"]} :
         /\ PIPE' = res.PIPE
         /\ loadCount' = res.loads
         /\ call' = [fn |-> "analyze_and_recommend", ctype |-> ctype,
                     image |-> q.image, style |-> q.style, size |-> q.size,
                     budget |-> q.budget, db |-> db, pipeBefore |-> PIPE,
                     fileBefore |-> modelFile, loadsBefore |-> loadCount,
                     res |-> res]
    /\ UNCHANGED <<modelFile, products, prices, reqs, runs, clicks, likes, now>>

\* variant: a query the backend fails is issued a second time, and the second
\* attempt is answered
HandleWithRetry(ctype, q, db) ==
    /\ \E res \in {IF ctype \in AllowedTypes
                   THEN LET r == analyze_and_recommend(q.image, q.style, q.size,
                                                       q.budget, FALSE, FALSE,
                                                       products, prices,
                                                       PIPE, modelFile, loadCount)
                        IN  IF db = "products error" THEN [r EXCEPT !.prodQ = @ + 1]
                            ELSE IF db = "prices error" THEN [r EXCEPT !.priceQ = @ + 1]
                            ELSE r
                   ELSE [NoResult(PIPE, loadCount) EXCEPT
                           !.status = 400, !.detail = "Unsupported image type"]} :
         /\ PIPE' = res.PIPE
         /\ loadCount' = res.loads
         /\ call' = [fn |-> "analyze_and_recommend", ctype |-> ctype,
                     image |-> q.image, style |-> q.style, size |-> q.size,
                     budget |-> q.budget, db |-> db, pipeBefore |-> PIPE,
                     fileBefore |-> modelFile, loadsBefore |-> loadCount,
                     res |-> res]
    /\ UNCHANGED <<modelFile, products, prices, reqs, runs, clicks, likes, now>>

\* a whole request, from its arrival to its response, with nothing else of
\* the process running meanwhile
HandleWith(ctype, q, db) ==
    /\ \E res \in {IF ctype \in AllowedTypes
                   THEN analyze_and_recommend(q.image, q.style, q.size, q.budget,
                                              db = "products error",
                                              db = "prices error", products, prices,
                                              PIPE, modelFile, loadCount)
                   ELSE [NoResult(PIPE, loadCount) EXCEPT
                           !.status = 400, !.detail = "Unsupported image type"]} :
         /\ PIPE' = res.PIPE
         /\ loadCount' = res.loads
         /\ call' = [fn |-> "analyze_and_recommend", ctype |-> ctype,
                     image |-> q.image, style |-> q.style, size |-> q.size,
                     budget |-> q.budget, db |-> db, pipeBefore |-> PIPE,
                     fileBefore |-> modelFile, loadsBefore |-> loadCount,
                     res |-> res]
    /\ UNCHANGED <<modelFile, products, prices, reqs, runs, clicks, likes, now>>

Handle ==
    \E ctype \in ContentTypes, q \in ReqSamples, db \in QueryOutcomes :
        HandleWith(ctype, q, db)

-----------------------------------------------------------------------------
(* Direct calls of the scorer functions, between requests *)

InitFn ==
    /\ PIPE = None
    /\ loadCount = 0
    /\ modelFile \in 0..MaxVersion
    /\ products = <<>>
    /\ prices = <<>>
    /\ reqs = [r \in Reqs |-> [pc |-> "idle"]]
    /\ runs = [r \in Reqs |-> None]
    /\ call = NoCall
    /\ clicks = <<>>
    /\ likes = <<>>
    /\ now = 0

ScorerProds ==
    { [id |-> "p1", price |-> Some(100), sizes |-> Some(<<"M">>),
       tags |-> Some(<<Some(<<"r", "e", "d">>)>>)],
      [id |-> "p2", price |-> Some(300), sizes |-> None, tags |-> None] }

RowSamples ==
    {row_from(p, t, "casual", Some("M")) :
        p \in ScorerProds, t \in {quick_traits_from_image(200)}}

RowBatches == UNION {[1..n -> RowSamples] : n \in 0..MaxRows}

PredictProbasCall ==
    /\ \E rows \in RowBatches :
         \E res \in {ml_predict_probas(rows, PIPE, modelFile, loadCount)} :
             /\ PIPE' = res.PIPE
             /\ loadCount' = res.loads
             /\ call' = [fn |-> "ml_predict_probas", rows |-> rows,
                         pipeBefore |-> PIPE, fileBefore |-> modelFile,
                         loadsBefore |-> loadCount, res |-> res]
    /\ UNCHANGED <<modelFile, products, prices, reqs, runs, clicks, likes, now>>

ScoreProductCall ==
    /\ \E prod \in ScorerProds, traits \in TraitSamples, style \in {"casual"},
          size \in {None, Some("M")} :
         \E res \in {ml_score_product(prod, traits, style, size,
                                      PIPE, modelFile, loadCount)} :
             /\ PIPE' = res.PIPE
             /\ loadCount' = res.loads
             /\ call' = [fn |-> "ml_score_product", prod |-> prod, traits |-> traits,
                         style |-> style, size |-> size,
                         pipeBefore |-> PIPE, fileBefore |-> modelFile,
                         loadsBefore |-> loadCount, res |-> res]
    /\ UNCHANGED <<modelFile, products, prices, reqs, runs, clicks, likes, now>>

------------------------------------------------------------------------

NextSeq ==
    \/ Handle
    \/ PredictProbasCall
    \/ ScoreProductCall
    \/ SetCatalog
    \/ TrainModel
    \/ RemoveModel

SpecSeq == Init /\ [][NextSeq]_vars

-----
(* Direct calls of the feature-row builder and of the explanation list: one *)
(* call per behaviour, on arguments drawn from the sample sets             *)

RowFromCall ==
    /\ call = NoCall
    /\ \E prod \in ProdSamples, traits \in TraitSamples, style \in Styles,
          size \in SizeArgs :
         call' = [fn |-> "row_from", prod |-> prod, traits |-> traits,
                  style |-> style, size |-> size,
                  row |-> row_from(prod, traits, style, size)]
    /\ UNCHANGED <<PIPE, loadCount, modelFile, products, prices, reqs, runs, clicks, likes, now>>

WhyCall ==
    /\ call = NoCall
    /\ \E prod \in ProdSamples, size \in SizeArgs :
         call' = [fn |-> "why", prod |-> prod, size |-> size,
                  why |-> WhyFor(prod, size)]
    /\ UNCHANGED <<PIPE, loadCount, modelFile, products, prices, reqs, runs, clicks, likes, now>>

NextRow ==
    \/ RowFromCall
    \/ WhyCall

SpecRow == InitFn /\ [][NextRow]_vars

-----------------------------------------------------------------------------
(* Properties of the feature-row builder (SpecRow) *)

\* the requested size Z is non-empty and one of the labels of P.sizes
SizeOffered(P, Z) ==
    /\ ~IsNone(Z)
    /\ Val(Z) # ""
    /\ ~IsNone(P.sizes)
    /\ \E i \in 1..Len(Val(P.sizes)) : Val(P.sizes)[i] = Val(Z)

\* C7: in the row built by row_from for product P and requested size Z,
\* has_size is 1 if and only if Z is non-empty and an element of P.sizes, and
\* it is 0 in every other case (Z null or empty, P.sizes null or empty, Z not
\* in P.sizes).
C7_HasSize ==
    call.fn = "row_from" =>
        /\ call.row.has_size \in {0, 1}
        /\ (call.row.has_size = 1) <=> SizeOffered(call.prod, call.size)

C7_Witness ==
    /\ call.fn = "row_from"
    /\ call.size = Some("M")
    /\ call.prod.sizes = Some(<<"M", "L">>)
    /\ call.row.has_size = 1

FeatureKeys ==
    {"price", "has_size", "style", "skin_temperature", "skin_depth", "frame",
     "height_bucket", "shoulders", "color_tags", "fit_tags", "avoid_tags"}

\* C8: row_from returns a mapping with exactly the eleven feature keys
\* (hair_type and hair_color are not among them); price is the product's price
\* as an integer, 0 when the price is null; has_size is 0 or 1; style and the
\* five trait fields are the inputs unchanged.
C8_Schema ==
    call.fn = "row_from" =>
        /\ DOMAIN call.row = FeatureKeys
        /\ Cardinality(DOMAIN call.row) = 11
        /\ call.row.price \in Int
        /\ call.row.price = IF call.prod.price = None THEN 0 ELSE call.prod.price[1]
        /\ call.row.has_size \in {0, 1}
        /\ call.row.style = call.style
        /\ call.row.skin_temperature = call.traits.skin_temperature
        /\ call.row.skin_depth = call.traits.skin_depth
        /\ call.row.frame = call.traits.frame
        /\ call.row.height_bucket = call.traits.height_bucket
        /\ call.row.shoulders = call.traits.shoulders

C8_Witness ==
    /\ call.fn = "row_from"
    /\ call.prod.price = None
    /\ call.row.price = 0
    /\ call.traits.hair_type = "curly"
    /\ call.style = "traditional"

\* the tags of P that are neither null nor the empty string, in their order
RECURSIVE PresentTags(_)
PresentTags(ts) ==
    IF ts = <<>> THEN <<>>
    ELSE IF IsNone(ts[1]) \/ ts[1] = Some(<<>>) THEN PresentTags(Tail(ts))
    ELSE <<ts[1][1]>> \o PresentTags(Tail(ts))

ClaimedTagString(P) ==
    LET kept == PresentTags(IF IsNone(P.tags) THEN <<>> ELSE P.tags[1])
    IN  Join(<<";">>, [i \in 1..Len(kept) |-> Lower(kept[i])])

\* C9: in every feature row color_tags and fit_tags hold the same string: the
\* product's tags in their order, lowercased, every null or empty tag dropped,
\* joined with ';' (empty when there are no tags or the tag list is null); and
\* avoid_tags is the empty string.
C9_TagStrings ==
    call.fn = "row_from" =>
        /\ call.row.color_tags = call.row.fit_tags
        /\ call.row.color_tags = ClaimedTagString(call.prod)
        /\ call.row.avoid_tags = <<>>

\* what does hold of the tag strings: only empty strings are dropped, a null
\* tag is kept as the text "none"
C9_TagStringsOfCode ==
    call.fn = "row_from" =>
        /\ call.row.color_tags = call.row.fit_tags
        /\ call.row.avoid_tags = <<>>
        /\ (\A i \in 1..Len(OrEmpty(call.prod.tags)) :
               ~IsNone(OrEmpty(call.prod.tags)[i]))
             => call.row.color_tags = ClaimedTagString(call.prod)

IsPriceReason(x) == Len(x) = 2 /\ x[1] = "price Rs"

\* C10: the explanation list starts with "in stock in your size" if and only
\* if the requested size is non-empty and among the product's sizes; it
\* contains the price reason, with the product's integer price, if and only if
\* the price is present, and after the size reason when both apply; it is the
\* single fallback "good predicted match" if and only if neither applied; so
\* it is never empty.
C10_Why ==
    call.fn = "why" =>
        LET w == call.why
            sized == SizeOffered(call.prod, call.size)
            priced == call.prod.price # None
        IN  /\ Len(w) >= 1
            /\ (w[1] = InStockReason) <=> sized
            /\ (\E i \in 1..Len(w) : IsPriceReason(w[i])) <=> priced
            /\ priced => w[Len(w)] = <<"price Rs", call.prod.price[1]>>
            /\ Len(w) = (IF sized THEN 1 ELSE 0) + (IF priced THEN 1 ELSE 0)
                        + (IF ~sized /\ ~priced THEN 1 ELSE 0)
            /\ (w = <<FallbackReason>>) <=> (~sized /\ ~priced)

C10_Witness ==
    /\ call.fn = "why"
    /\ call.size = Some("S")
    /\ call.prod.price = None
    /\ call.why = <<FallbackReason>>

-----------------------------------------------------------------------------
(* Properties of the batch scorer and of the model cache *)

\* C1: ml_predict_probas called with an empty sequence of rows returns an
\* empty sequence without invoking the model and without loading it: the load
\* counter and the model cache are the same after the call as before it.
C1_EmptyBatchLoadsNothing ==
    (call.fn = "ml_predict_probas" /\ call.rows = <<>>) =>
        /\ ~call.res.raised
        /\ call.res.ret = <<>>
        /\ ~call.res.invoked
        /\ call.res.loads = call.loadsBefore
        /\ call.res.PIPE = call.pipeBefore

\* C2: when several requests reach the batch scorer while the cache is empty,
\* the first load is serialised: the artifact is read at most once, exactly
\* once as soon as a request has been scored, and every request that was
\* scored got the one object that is in the cache.
C2_FirstLoadSerialised ==
    /\ loadCount <= 1
    /\ \A r \in Reqs :
         (runs[r] # None /\ runs[r][1].obj # 0) =>
             /\ loadCount = 1
             /\ PIPE # None
             /\ runs[r][1].obj = PIPE[1].obj

\* two requests were in flight with the cache empty, one of them read the
\* artifact while the other was suspended, and both were scored
C2_Witness ==
    \E r1 \in Reqs : \E r2 \in Reqs \ {r1} :
        /\ runs[r1] # None
        /\ runs[r1][1].raced
        /\ runs[r2] # None
        /\ runs[r2][1].scored
        /\ runs[r2][1].obj = runs[r1][1].obj
        /\ runs[r2][1].obj # 0

\* C3: for a non-empty batch R of N rows and a loaded model, ml_predict_probas
\* returns N scores and the i-th is the model's score of R[i]; and in a request
\* every ranked entry carries the model's score of the row of its own product.
C3_OrderPreserved ==
    /\ (call.fn = "ml_predict_probas" /\ call.rows # <<>> /\ ~call.res.raised) =>
          /\ Len(call.res.ret) = Len(call.rows)
          /\ \A i \in 1..Len(call.rows) :
                call.res.ret[i] = ModelScore(call.res.PIPE[1].ver, call.rows[i])
    /\ (call.fn = "analyze_and_recommend" /\ call.res.invoked) =>
          /\ Len(call.res.probas) = Len(call.res.rows)
          /\ Len(call.res.rows) = Len(call.res.filtered)
          /\ \A i \in 1..Len(call.res.rows) :
                call.res.probas[i] = ModelScore(call.res.PIPE[1].ver, call.res.rows[i])
          /\ \A k \in 1..Len(call.res.top) :
                \E i \in 1..Len(call.res.filtered) :
                    /\ call.res.top[k].p = call.res.filtered[i]
                    /\ call.res.top[k].score =
                         ModelScore(call.res.PIPE[1].ver,
                                    row_from(call.res.filtered[i],
                                             quick_traits_from_image(call.image[1]),
                                             call.style, call.size))

\* a request ranked two candidates whose scores differ, the catalog listing
\* them in the order p2, p1
C3_Witness ==
    /\ call.fn = "analyze_and_recommend"
    /\ call.res.status = 200
    /\ Len(call.res.filtered) = 2
    /\ call.res.filtered[1].id = "p2"
    /\ call.res.probas[1] # call.res.probas[2]
    /\ Len(call.res.items) = 2

-----------------------------------------------------------------------------
(* Ranking of long candidate lists: a catalog is built product by product,  *)
(* then one request is served                                              *)

MaxProducts == 13    \* longest catalog
ShortLen == 2        \* catalog prefix whose prices range over three values

RankIds == <<"c01", "c02", "c03", "c04", "c05", "c06", "c07", "c08",
             "c09", "c10", "c11", "c12", "c13", "c14", "c15", "c16">>

InitRank ==
    /\ PIPE = None
    /\ loadCount = 0
    /\ modelFile = 1
    /\ products = <<>>
    /\ prices = <<>>
    /\ reqs = [r \in Reqs |-> Idle]
    /\ runs = [r \in Reqs |-> None]
    /\ call = NoCall
    /\ clicks = <<>>
    /\ likes = <<>>
    /\ now = 0

AddProduct ==
    /\ call = NoCall
    /\ Len(products) < MaxProducts
    /\ Len(products) < Len(RankIds)
    /\ \E price \in (IF Len(products) < ShortLen THEN {100, 200, 300} ELSE {100, 200}) :
         LET id == RankIds[Len(products) + 1]
         IN  /\ products' = Append(products, Product(id, Some(<<>>)))
             /\ prices' = Append(prices, PriceRow(id, Some(price), Some(<<"M">>), "true"))
    /\ UNCHANGED <<PIPE, loadCount, modelFile, reqs, runs, call, clicks, likes, now>>

RankRequest ==
    /\ call = NoCall
    /\ HandleWith("image/jpeg",
                  [image |-> Some(200), style |-> "casual", size |-> Some("M"),
                   budget |-> None],
                  "ok")

NextRank ==
    \/ AddProduct
    \/ RankRequest

SpecRank == InitRank /\ [][NextRank]_vars

-----------------------------------------------------------------------------
(* The catalog join over all small catalogs: the catalog is drawn at the   *)
(* start, then one request is served                                       *)

J1 == Product("p1", Some(<<Some(<<"r", "e", "d">>)>>))
J2 == Product("p2", Some(<<>>))

JoinProducts == {<<>>, <<J1>>, <<J1, J2>>, <<J2, J1>>}

JoinRows(id) ==
    {<<>>} \cup
    {<<PriceRow(id, pr, sz, st)>> :
        pr \in {None, Some(0), Some(250)},
        sz \in {None, Some(<<"M">>)},
        st \in {"true", "false", "absent"}}

JoinTables == {r1 \o r2 : r1 \in JoinRows("p1"), r2 \in JoinRows("p2")}

InitJoin ==
    /\ PIPE = None
    /\ loadCount = 0
    /\ modelFile = 1
    /\ products \in JoinProducts
    /\ prices \in JoinTables
    /\ reqs = [r \in Reqs |-> Idle]
    /\ runs = [r \in Reqs |-> None]
    /\ call = NoCall
    /\ clicks = <<>>
    /\ likes = <<>>
    /\ now = 0

JoinRequest ==
    /\ call = NoCall
    /\ Handle

NextJoin == JoinRequest

SpecJoin == InitJoin /\ [][NextJoin]_vars

-----------------------------------------------------------------------------
(* Properties of the ranker (SpecRank) and of the catalog join (SpecJoin) *)

\* position of candidate p in the candidate list F (ids are unique)
PosIn(F, p) == CHOOSE i \in 1..Len(F) : F[i].id = p.id

Responded == call.fn = "analyze_and_recommend" /\ call.res.status = 200

\* C4: the response lists the ranked entries in their order; an entry listed
\* earlier has a score greater than or equal to that of a later one, and two
\* entries with equal scores are in the order their products have in the
\* candidate list.
C4_SortedStable ==
    Responded =>
        LET top == call.res.top
            F == call.res.filtered
        IN  /\ Len(call.res.items) = Len(top)
            /\ \A k \in 1..Len(top) : call.res.items[k].id = top[k].p.id
            /\ \A a \in 1..Len(top) : \A b \in 1..Len(top) :
                 a < b =>
                    /\ top[a].score >= top[b].score
                    /\ top[a].score = top[b].score
                         => PosIn(F, top[a].p) < PosIn(F, top[b].p)

\* three score levels, a tie, and a first entry that is not the first candidate
C4_Witness ==
    /\ Responded
    /\ Len(call.res.top) >= 4
    /\ call.res.top[1].score > call.res.top[2].score
    /\ call.res.top[2].score = call.res.top[3].score
    /\ call.res.top[3].score > call.res.top[4].score
    /\ call.res.top[1].p.id # call.res.filtered[1].id

\* C5: for N candidates the response has exactly min(12, N) items, all of
\* them candidates and no two the same, and no candidate left out has a
\* strictly higher score than a candidate that is in the response.
C5_Truncation ==
    Responded =>
        LET F == call.res.filtered
            items == call.res.items
            inResp == {i \in 1..Len(F) : \E k \in 1..Len(items) : items[k].id = F[i].id}
        IN  /\ Len(items) = (IF Len(F) < 12 THEN Len(F) ELSE 12)
            /\ \A k \in 1..Len(items) : \E i \in 1..Len(F) : items[k].id = F[i].id
            /\ \A k \in 1..Len(items) : \A m \in 1..Len(items) :
                 items[k].id = items[m].id => k = m
            /\ \A i \in 1..Len(F) : \A j \in inResp :
                 i \notin inResp => call.res.probas[i] <= call.res.probas[j]

\* thirteen candidates, twelve items, and the last candidate of the list is in
\* the response while an earlier one is not
C5_Witness ==
    /\ Responded
    /\ Len(call.res.filtered) = 13
    /\ Len(call.res.items) = 12
    /\ \E k \in 1..12 : call.res.items[k].id = call.res.filtered[13].id
    /\ \A k \in 1..12 : call.res.items[k].id # call.res.filtered[2].id

\* product p has a price row whose price is present and whose in_stock is
\* not false
Eligible(p) ==
    \E i \in 1..Len(prices) :
        /\ prices[i].product_id = p.id
        /\ prices[i].price # None
        /\ prices[i].in_stock # "false"

RECURSIVE EligibleIds(_)
EligibleIds(ps) ==
    IF ps = <<>> THEN <<>>
    ELSE IF Eligible(ps[1]) THEN <<ps[1].id>> \o EligibleIds(Tail(ps))
    ELSE EligibleIds(Tail(ps))

-----------------------------------------------------------------------------
(* Properties of a whole request (SpecSeq) *)

\* the request passed image validation and the storage backend answered both
\* queries
Served ==
    /\ call.fn = "analyze_and_recommend"
    /\ call.ctype \in {"image/jpeg", "image/png", "image/webp"}
    /\ call.image # None
    /\ call.db = "ok"

\* none of the products prods has, among the price rows data, a row with a
\* price and in stock
NoCandidate(prods, data) ==
    \A i \in 1..Len(prods) :
        ~ \E j \in 1..Len(data) :
             /\ data[j].product_id = prods[i].id
             /\ data[j].price # None
             /\ data[j].in_stock # "false"

\* C11: when no product survives the join and the filter, the request is
\* answered with status 200 and an empty items list, and the batch scorer is
\* not called: no model invocation, no load, the cache and the load counter
\* are as before, whether or not the artifact exists.
C11_EmptyResult ==
    (Served /\ NoCandidate(call.res.prods, call.res.data)) =>
        /\ call.res.status = 200
        /\ call.res.items = <<>>
        /\ call.res.filtered = <<>>
        /\ ~call.res.scorerCalled
        /\ ~call.res.invoked
        /\ call.res.PIPE = call.pipeBefore
        /\ call.res.loads = call.loadsBefore
        /\ PIPE = call.pipeBefore
        /\ loadCount = call.loadsBefore

\* two products, one out of stock and one without price, the cache empty and
\* the artifact missing: the request succeeds with no items
C11_Witness ==
    /\ Served
    /\ Len(call.res.prods) = 2
    /\ Len(call.res.data) = 2
    /\ NoCandidate(call.res.prods, call.res.data)
    /\ call.fileBefore = 0
    /\ call.pipeBefore = None
    /\ call.res.status = 200
    /\ call.res.items = <<>>

-----------------------------------------------------------------------------
(* /track: routes/analyze.py track (main.py holds the same handler) *)

MaxEvents == 2       \* rows the two sinks hold together, at most
MaxClock == 2        \* latest value of the server clock

EventKinds == {"click", "like", "hide"}

\* what sb.table(table).insert(...).execute() reports
InsertOutcomes == {"ok", "error"}

\* the request bodies: the three fields of TrackEvent, and a "ts" a client may
\* add to the JSON body (TrackEvent has no such field)
TrackEvents ==
    [event : EventKinds, product_id : {"p1", "p2"}, session_id : {"s1"},
     ts : {None, Some(99)}]

\* variant: "hide" events go with the clicks
TableForHideWithClicks(kind) == IF kind = "like" THEN "likes" ELSE "clicks"

\* table = "clicks" if event.event == "click" else "likes" if ... else "likes"
TableFor(kind) ==
    IF kind = "click" THEN "clicks"
    ELSE IF kind = "like" THEN "likes"
    ELSE "likes"

\* the row handed to insert(): the clock is read by the server
TrackRow(event, t) ==
    [product_id |-> event.product_id, session_id |-> event.session_id, ts |-> t]

\* the table after insert(row).execute(): the row is appended unless the
\* backend reports an error
Insert(rows, row, outcome) == IF outcome = "ok" THEN Append(rows, row) ELSE rows

\* variant: an insert that reports an error is issued a second time, and that
\* one goes through
TrackRetrying(event, outcome, cl, lk, t) ==
    LET table == TableFor(event.event)
        row == TrackRow(event, t)
    IN  [status |-> 200, ok |-> TRUE, table |-> table, row |-> row,
         inserts |-> IF outcome = "ok" THEN 1 ELSE 2,
         clicks |-> IF table = "clicks" THEN Append(cl, row) ELSE cl,
         likes |-> IF table = "likes" THEN Append(lk, row) ELSE lk]

\* the handler: one insert, then 500 if it reported an error, else {"ok": True}
track(event, outcome, cl, lk, t) ==
    LET table == TableFor(event.event)
        row == TrackRow(event, t)
    IN  [status |-> IF outcome = "ok" THEN 200 ELSE 500,
         ok |-> outcome = "ok",
         table |-> table, row |-> row, inserts |-> 1,
         clicks |-> IF table = "clicks" THEN Insert(cl, row, outcome) ELSE cl,
         likes |-> IF table = "likes" THEN Insert(lk, row, outcome) ELSE lk]

InitTrack ==
    /\ PIPE = None
    /\ loadCount = 0
    /\ modelFile = 1
    /\ products = <<>>
    /\ prices = <<>>
    /\ reqs = [r \in Reqs |-> Idle]
    /\ runs = [r \in Reqs |-> None]
    /\ call = NoCall
    /\ clicks = <<>>
    /\ likes = <<>>
    /\ now = 0

\* a /track request is served
Track ==
    /\ Len(clicks) + Len(likes) < MaxEvents
    /\ \E event \in TrackEvents, outcome \in InsertOutcomes :
         \E res \in {track(event, outcome, clicks, likes, now)} :
             /\ clicks' = res.clicks
             /\ likes' = res.likes
             /\ call' = [fn |-> "track", event |-> event, outcome |-> outcome,
                         clicksBefore |-> clicks, likesBefore |-> likes,
                         clock |-> now, res |-> res]
    /\ UNCHANGED <<PIPE, loadCount, modelFile, products, prices, reqs, runs, now>>

\* a second passes
Tick ==
    /\ now < MaxClock
    /\ now' = now + 1
    /\ UNCHANGED <<PIPE, loadCount, modelFile, products, prices, reqs, runs, call,
                   clicks, likes>>

NextTrack ==
    \/ Track
    \/ Tick

SpecTrack == InitTrack /\ [][NextTrack]_vars

\* C12: a /track call issues exactly one insert; when it goes through, a
\* "click" event adds one row at the end of clicks and leaves likes as it was,
\* a "like" or a "hide" event adds one row at the end of likes and leaves
\* clicks as it was, and the row holds the event's product_id and session_id
\* and, as ts, the server clock at the time of the call, whatever ts the
\* client sent.
C12_TrackRouting ==
    call.fn = "track" =>
        LET e == call.event
            row == [product_id |-> e.product_id, session_id |-> e.session_id,
                    ts |-> call.clock]
        IN  /\ call.res.inserts = 1
            /\ (call.outcome = "ok" /\ e.event = "click") =>
                  /\ clicks = Append(call.clicksBefore, row)
                  /\ likes = call.likesBefore
            /\ (call.outcome = "ok" /\ e.event \in {"like", "hide"}) =>
                  /\ likes = Append(call.likesBefore, row)
                  /\ clicks = call.clicksBefore

\* a "hide" event whose body carried ts 99, written at clock 1 after a "like"
\* event: both rows are in likes, the second with ts 1
C12_Witness ==
    /\ call.fn = "track"
    /\ call.outcome = "ok"
    /\ call.event.event = "hide"
    /\ call.event.ts = Some(99)
    /\ call.clock = 1
    /\ Len(call.likesBefore) = 1
    /\ Len(likes) = 2
    /\ likes[2].ts = 1
    /\ clicks = <<>>

\* C13: /track answers {ok: true} exactly when the insert reported no error;
\* when it reported one the answer is a 500, the insert was issued once only,
\* and neither sink holds a row of the event: both are as before the call,
\* and stay so until the next call.
C13_TrackFailure ==
    call.fn = "track" =>
        /\ (call.res.status = 200 /\ call.res.ok) <=> call.outcome = "ok"
        /\ call.outcome = "error" =>
              /\ call.res.status = 500
              /\ ~call.res.ok
              /\ call.res.inserts = 1
              /\ clicks = call.clicksBefore
              /\ likes = call.likesBefore

\* a failed "click" after a stored "like", seen one second later
C13_Witness ==
    /\ call.fn = "track"
    /\ call.outcome = "error"
    /\ call.event.event = "click"
    /\ call.res.status = 500
    /\ Len(likes) = 1
    /\ clicks = <<>>
    /\ now = call.clock + 1

\* C14: a request whose content type is not image/jpeg, image/png or
\* image/webp, or whose bytes cannot be opened as an image, is answered with
\* status 400 and nothing else happens: no products query, no prices query,
\* no feature rows, no model load, no model invocation, no items, and the
\* model cache and the load counter are as before.
C14_BadImageRejected ==
    (/\ call.fn = "analyze_and_recommend"
     /\ \/ call.ctype \notin {"image/jpeg", "image/png", "image/webp"}
        \/ call.image = None) =>
        /\ call.res.status = 400
        /\ call.res.prodQ = 0
        /\ call.res.priceQ = 0
        /\ call.res.rows = <<>>
        /\ ~call.res.scorerCalled
        /\ ~call.res.invoked
        /\ call.res.items = <<>>
        /\ call.res.PIPE = call.pipeBefore
        /\ call.res.loads = call.loadsBefore
        /\ PIPE = call.pipeBefore
        /\ loadCount = call.loadsBefore

\* a GIF with readable bytes, a catalog of two products, the artifact present
\* and the cache empty: rejected, and the cache is still empty
C14_Witness ==
    /\ call.fn = "analyze_and_recommend"
    /\ call.ctype = "image/gif"
    /\ call.image # None
    /\ call.db = "ok"
    /\ call.fileBefore = 1
    /\ call.pipeBefore = None
    /\ Len(products) = 2
    /\ call.res.status = 400
    /\ PIPE = None

\* the request passed image validation
ImageAccepted ==
    /\ call.fn = "analyze_and_recommend"
    /\ call.ctype \in {"image/jpeg", "image/png", "image/webp"}
    /\ call.image # None

\* C15: when the backend fails the products query the request ends with
\* status 500 and no items, and no prices query follows; when it fails the
\* prices query the request ends with status 500 and no items; in both cases
\* no feature row is built, the model is not loaded and nothing is scored.
\* Each query is issued at most once per request, feature rows are built only
\* after both queries, the scorer runs only on built rows, and items are
\* returned only after the scorer ran.
C15_QueryFailure ==
    call.fn = "analyze_and_recommend" =>
        /\ call.res.prodQ <= 1
        /\ call.res.priceQ <= 1
        /\ call.res.priceQ = 1 => call.res.prodQ = 1
        /\ call.res.rows # <<>> => (call.res.prodQ = 1 /\ call.res.priceQ = 1)
        /\ call.res.scorerCalled => call.res.rows # <<>>
        /\ call.res.items # <<>> => (call.res.scorerCalled /\ call.res.invoked)
        /\ (ImageAccepted /\ call.db = "products error") =>
              /\ call.res.prodQ = 1
              /\ call.res.priceQ = 0
        /\ (ImageAccepted /\ call.db = "prices error") =>
              /\ call.res.prodQ = 1
              /\ call.res.priceQ = 1
        /\ (ImageAccepted /\ call.db # "ok") =>
              /\ call.res.status = 500
              /\ call.res.items = <<>>
              /\ call.res.rows = <<>>
              /\ ~call.res.scorerCalled
              /\ ~call.res.invoked
              /\ call.res.PIPE = call.pipeBefore
              /\ call.res.loads = call.loadsBefore

\* the prices query fails on a catalog of two products with the artifact
\* present and the cache still empty
C15_Witness ==
    /\ ImageAccepted
    /\ call.db = "prices error"
    /\ Len(call.res.prods) = 2
    /\ call.fileBefore = 1
    /\ call.pipeBefore = None
    /\ call.res.status = 500
    /\ call.res.priceQ = 1
    /\ PIPE = None

\* the request failed on the missing artifact: the FileNotFoundError of
\* _load_pipe went through the handler, nothing was scored, no item was
\* returned and the cache is still empty
FailedOnMissingModel ==
    /\ call.res.status = 500
    /\ call.res.detail = "Model not found"
    /\ call.res.raisedLoad
    /\ ~call.res.invoked
    /\ call.res.probas = <<>>
    /\ call.res.top = <<>>
    /\ call.res.items = <<>>
    /\ call.res.PIPE = None
    /\ call.res.loads = call.loadsBefore
    /\ PIPE = None

\* C16 as stated: while the artifact is missing, every request with at least
\* one candidate fails with the configuration error, returns no items and
\* leaves the cache uninitialised.
C16_MissingModelFails ==
    (Served /\ call.fileBefore = 0 /\ call.res.filtered # <<>>) =>
        FailedOnMissingModel

\* C16, amended: while the artifact is missing and the cache is
\* uninitialised, every request with at least one candidate fails with the
\* configuration error, returns no items and leaves the cache uninitialised.
C16_MissingModelFailsOnEmptyCache ==
    (Served /\ call.fileBefore = 0 /\ call.pipeBefore = None
        /\ call.res.filtered # <<>>) =>
        FailedOnMissingModel

\* two candidates, no artifact, empty cache: the request fails
C16_Witness ==
    /\ Served
    /\ call.fileBefore = 0
    /\ call.pipeBefore = None
    /\ Len(call.res.filtered) = 2
    /\ Len(call.res.rows) = 2
    /\ FailedOnMissingModel

\* C17: over any sequence of scoring calls made one after the other, the
\* artifact is deserialised at most once.  The cache is filled only by a load
\* of the artifact that is on disk at that time, and only when it was empty;
\* while the artifact is missing it stays empty; once filled it is never
\* reset or replaced, whatever happens to the file; and a batch scored on a
\* filled cache is scored by the cached object, without reading the file.
C17_LoadedAtMostOnce ==
    [][ /\ loadCount' <= 1
        /\ PIPE # None => PIPE' = PIPE
        /\ loadCount' # loadCount =>
              /\ PIPE = None
              /\ PIPE' # None
              /\ loadCount' = loadCount + 1
        /\ (PIPE = None /\ PIPE' # None) =>
              /\ modelFile # 0
              /\ loadCount' = loadCount + 1
              /\ Val(PIPE').ver = modelFile
        /\ (PIPE # None /\ call' # call /\ call'.fn = "ml_predict_probas") =>
              /\ ~call'.res.raised
              /\ call'.res.PIPE = PIPE
              /\ call'.res.loads = loadCount
              /\ Len(call'.res.ret) = Len(call'.rows)
              /\ \A i \in 1..Len(call'.rows) :
                    call'.res.ret[i] = ModelScore(Val(PIPE).ver, call'.rows[i])
      ]_vars

\* a batch scored by the object loaded from artifact 1 after the file has
\* been replaced by artifact 2
C17_Witness ==
    /\ call.fn = "ml_predict_probas"
    /\ call.rows # <<>>
    /\ call.pipeBefore # None
    /\ Val(call.pipeBefore).ver = 1
    /\ call.fileBefore = 2
    /\ ~call.res.raised
    /\ PIPE = call.pipeBefore
    /\ loadCount = 1

-----------------------------------------------------------------------------
(* Properties of a request on a fixed catalog (SpecJoin) *)

\* budgets a second request may carry
BudgetArgs == {None, Some(0), Some(150), Some(1000)}

\* the outcome of the request of the call record, had it carried budget b:
\* same image, style, size, backend answers, catalog, cache and artifact
WithBudget(b) ==
    IF call.ctype \in {"image/jpeg", "image/png", "image/webp"}
    THEN analyze_and_recommend(call.image, call.style, call.size, b,
                               call.db = "products error", call.db = "prices error",
                               products, prices,
                               call.pipeBefore, call.fileBefore, call.loadsBefore)
    ELSE [NoResult(call.pipeBefore, call.loadsBefore) EXCEPT
            !.status = 400, !.detail = "Unsupported image type"]

\* C18: a request that differs from the served one in its budget only (any
\* budget, or none) has the same outcome: same status, same candidate list,
\* same feature rows, same scores, same items in the same order with the same
\* why lists.
C18_BudgetIgnored ==
    call.fn = "analyze_and_recommend" =>
        \A b \in BudgetArgs :
            \E other \in {WithBudget(b)} :
                /\ other.status = call.res.status
                /\ other.filtered = call.res.filtered
                /\ other.rows = call.res.rows
                /\ other.probas = call.res.probas
                /\ other.items = call.res.items
                /\ other = call.res

\* a request with budget 150 whose two items both cost 250
C18_Witness ==
    /\ Responded
    /\ call.budget = Some(150)
    /\ Len(call.res.items) = 2
    /\ \A k \in 1..2 : call.res.items[k].price = 250

-----------------------------------------------------------------------------
(* Two requests of one process with the catalog edited in between *)

FirstRequest ==
    /\ call = NoCall
    /\ Handle

\* the catalog is edited after the first request
CatalogEdit ==
    /\ call.fn = "analyze_and_recommend"
    /\ SetCatalog

\* variant: the second request works on the query results of the first
SecondRequestCached ==
    /\ call.fn = "analyze_and_recommend"
    /\ \E db \in QueryOutcomes :
         \E res \in {IF call.ctype \in AllowedTypes
                     THEN analyze_and_recommend(call.image, call.style, call.size,
                                                call.budget, db = "products error",
                                                db = "prices error",
                                                call.res.prods, call.res.data,
                                                PIPE, modelFile, loadCount)
                     ELSE [NoResult(PIPE, loadCount) EXCEPT
                             !.status = 400, !.detail = "Unsupported image type"]} :
             /\ PIPE' = res.PIPE
             /\ loadCount' = res.loads
             /\ call' = [fn |-> "analyze_again", first |-> call,
                         ctype |-> call.ctype, image |-> call.image, db |-> db,
                         pipeBefore |-> PIPE, fileBefore |-> modelFile,
                         loadsBefore |-> loadCount, res |-> res]
    /\ UNCHANGED <<modelFile, products, prices, reqs, runs, clicks, likes, now>>

\* the same client sends the same form again
SecondRequest ==
    /\ call.fn = "analyze_and_recommend"
    /\ \E db \in QueryOutcomes :
         \E res \in {IF call.ctype \in AllowedTypes
                     THEN analyze_and_recommend(call.image, call.style, call.size,
                                                call.budget, db = "products error",
                                                db = "prices error",
                                                products, prices,
                                                PIPE, modelFile, loadCount)
                     ELSE [NoResult(PIPE, loadCount) EXCEPT
                             !.status = 400, !.detail = "Unsupported image type"]} :
             /\ PIPE' = res.PIPE
             /\ loadCount' = res.loads
             /\ call' = [fn |-> "analyze_again", first |-> call,
                         ctype |-> call.ctype, image |-> call.image, db |-> db,
                         pipeBefore |-> PIPE, fileBefore |-> modelFile,
                         loadsBefore |-> loadCount, res |-> res]
    /\ UNCHANGED <<modelFile, products, prices, reqs, runs, clicks, likes, now>>

NextCatalog ==
    \/ FirstRequest
    \/ CatalogEdit
    \/ SecondRequest

SpecCatalog == Init /\ [][NextCatalog]_vars

\* ids of a list of products or items
IdList(xs) == [i \in 1..Len(xs) |-> xs[i].id]

\* C19: a request that passed image validation issues its own products query
\* and, unless that one failed, its own prices query; what it works on is the
\* content of the two tables at the time of the request, not what an earlier
\* request of the process saw: its candidates are the products of the current
\* catalog that have a price row with a price and in stock, and its response
\* lists exactly them.
C19_CatalogRefetched ==
    (/\ call.fn = "analyze_again"
     /\ call.ctype \in {"image/jpeg", "image/png", "image/webp"}
     /\ call.image # None) =>
        /\ call.res.prodQ = 1
        /\ call.db # "products error" => call.res.priceQ = 1
        /\ call.db = "ok" =>
              /\ call.res.prods = products
              /\ \A j \in 1..Len(call.res.data) :
                    \E i \in 1..Len(prices) : prices[i] = call.res.data[j]
              /\ IdList(call.res.filtered) = EligibleIds(products)
              /\ call.res.status = 200 =>
                    \A i \in 1..Len(products) :
                        Eligible(products[i]) <=>
                            \E k \in 1..Len(call.res.items) :
                                call.res.items[k].id = products[i].id

\* the first request returned two items; one of the two products then went
\* out of the catalog's eligible set, and the second request returns one item
C19_Witness ==
    /\ call.fn = "analyze_again"
    /\ call.first.db = "ok"
    /\ call.db = "ok"
    /\ call.first.res.status = 200
    /\ call.res.status = 200
    /\ Len(call.first.res.items) = 2
    /\ Len(call.res.items) = 1
    /\ call.first.res.prods = products
    /\ call.first.res.data # call.res.data

\* reason x is one of the reasons of the list w
HasReason(w, x) == \E i \in 1..Len(w) : w[i] = x

\* C20: in every response, the why list of each item holds the price reason
\* of the item's own price and not the fallback reason, and it holds "in
\* stock in your size" exactly when the feature row scored for that item has
\* has_size = 1.
C20_WhyOfItems ==
    Responded =>
        \A k \in 1..Len(call.res.items) :
            LET it == call.res.items[k]
                row == call.res.rows[PosIn(call.res.filtered, it)]
            IN  /\ HasReason(it.why, <<"price Rs", it.price>>)
                /\ ~HasReason(it.why, <<"good predicted match">>)
                /\ HasReason(it.why, <<"in stock in your size">>) <=> row.has_size = 1
                /\ row.price = it.price

\* two items for a request of size "M": one offered in that size, with both
\* reasons, and one without sizes, with the price reason only, its price 0
C20_Witness ==
    /\ Responded
    /\ call.size = Some("M")
    /\ Len(call.res.items) = 2
    /\ call.res.items[1].why = <<<<"in stock in your size">>, <<"price Rs", 250>>>>
    /\ call.res.items[2].why = <<<<"price Rs", 0>>>>

====
